---- MODULE Spec2Model ----
(***************************************************************************)
(* hostd: the ephemeral-account Budget (host/accounts/budget.go) and the   *)
(* AccountManager table it updates.  Every budget is owned by one request  *)
(* task; the tasks interleave at the AccountManager lock (am.mu) and at    *)
(* the durable store's Debit.  Beside it: the contract store's update      *)
(* transaction on a contract's sector roots, and ConfigManager.Announce.   *)
(***************************************************************************)
EXTENDS Integers, FiniteSets, Sequences, TLC

\* ------------------------------------------------------------------ bounds
NumBudgets ==
  2
NumAccounts ==
  2
InitBalance ==
  2
MaxAmount ==
  2

Budgets ==
  1..NumBudgets
Accounts ==
  1..NumAccounts
Amounts ==
  0..MaxAmount

\* sector roots: the distinct hashes, the longest list, the longest batch
NumRoots ==
  2
MaxLen ==
  3
MaxOps ==
  2
Hashes ==
  1..NumRoots
\* indices and counts a caller may pass: MaxLen is beyond every list
Indices ==
  0..MaxLen

\* Announce: the chain heights, the v2 hardfork's AllowHeight, the calls
MaxHeight ==
  3
AllowHeight ==
  2
MaxCalls ==
  3

\* ------------------------------------------------------------------- state
VARIABLES
  pc,         \* pc[b]: where budget b's owning task is
  accountID,  \* budget.accountID (0 before the budget exists)
  max,        \* budget.max
  spent,      \* budget.spent
  committed,  \* budget.committed
  rem,        \* Commit's local rem (line 122)
  balances,   \* am.balances: accountID -> accountState, with the map's ok flag
  store,      \* the durable ledger behind am.store
  mu,         \* am.mu: 0 when free, else the budget whose call holds it
  resolved,   \* history: how the budget's Commit/Rollback returned, if it did
  cum,        \* history: sum of the amounts passed to Spend, capped at max + 1
  spendOnly,  \* history: only Spend has been called on the budget so far
  last,       \* the most recent step of a call and its outcome
  roots,      \* the contract's stored sector roots, in order
  tx,         \* the update transaction: open, its queued operations, failed
  ann         \* Announce: its position, the chain tip, wallet, pool and syncer

vars ==
  <<pc, accountID, max, spent, committed, rem, balances, store, mu,
    resolved, cum, spendOnly, last, roots, tx, ann>>

\* the accounts' variables, the contract store's, and Announce's
accountVars ==
  <<pc, accountID, max, spent, committed, rem, balances, store, mu,
    resolved, cum, spendOnly, last>>
rootVars ==
  <<roots, tx>>
otherVars ==
  <<roots, tx, ann>>

budgetVars ==
  <<accountID, max, spent, committed, rem>>
histVars ==
  <<resolved, cum, spendOnly>>

\* a lookup of a key the map does not hold yields the zero accountState
NoEntry ==
  [ok |-> FALSE, balance |-> 0, openTxns |-> 0]

\* val: the amount Empty returned (0 for every other call)
Result(b, op, res, val) ==
  [b |-> b, op |-> op, res |-> res, val |-> val]

Min(x, y) ==
  IF x <= y THEN x ELSE y

\* ----------------------------------------------------------------- helpers
\* types.Currency.Sub: x - y; when x < y the siad library reports a critical
\* error, which panics in debug builds and otherwise yields x.
SubOutcomes(x, y) ==
  IF x >= y
    THEN {[v |-> x - y, panic |-> FALSE]}
    ELSE {[v |-> x, panic |-> FALSE], [v |-> x, panic |-> TRUE]}

\* budget.Remaining
Remaining(b) ==
  max[b] - spent[b]

\* AccountStore.Debit(accountID, amount): the new ledger value, or an error
\* that leaves the ledger alone; a debit beyond the balance always fails.
Debit(a, amount) ==
  {[err |-> TRUE, balance |-> store[a]]} \cup
  (IF amount <= store[a]
     THEN {[err |-> FALSE, balance |-> store[a] - amount]}
     ELSE {})

\* no update transaction is open
NoTx ==
  [open |-> FALSE, work |-> <<>>, queue |-> <<>>, failed |-> "no", res |-> "none"]

Init ==
  /\ pc = [b \in Budgets |-> "free"]
  /\ accountID = [b \in Budgets |-> 0]
  /\ max = [b \in Budgets |-> 0]
  /\ spent = [b \in Budgets |-> 0]
  /\ committed = [b \in Budgets |-> FALSE]
  /\ rem = [b \in Budgets |-> 0]
  /\ balances = [a \in Accounts |-> NoEntry]
  /\ store = [a \in Accounts |-> InitBalance]
  /\ mu = 0
  /\ resolved = [b \in Budgets |-> "no"]
  /\ cum = [b \in Budgets |-> 0]
  /\ spendOnly = [b \in Budgets |-> TRUE]
  /\ last = Result(0, "none", "ok", 0)
  /\ roots = <<>>
  /\ tx = NoTx
  /\ ann = [pc |-> "idle", height |-> 0, v2 |-> FALSE, calls |-> 0,
            locked |-> 0, pooled |-> 0, sent |-> 0,
            funded |-> FALSE, released |-> FALSE, inPool |-> FALSE,
            bcast |-> FALSE, res |-> "none"]

\* ------------------------------------------------- AccountManager.Budget
\* am.mu.Lock() on entry
BudgetLock(b) ==
  /\ pc[b] = "free"
  /\ \A c \in Budgets : c < b => pc[c] # "free"
  /\ mu = 0
  /\ mu' = b
  /\ pc' = [pc EXCEPT ![b] = "new_cs"]
  /\ last' = Result(b, "BudgetLock", "ok", 0)
  /\ UNCHANGED <<budgetVars, balances, store, histVars>>

\* the body under the lock: use the cached balance, or load it from the
\* store; reserve amount and count the budget, or fail without a change
BudgetCreate(b, a, amount) ==
  /\ pc[b] = "new_cs"
  /\ mu = b
  /\ mu' = 0
  /\ LET avail == IF balances[a].ok THEN balances[a].balance ELSE store[a]
     IN IF avail < amount
          THEN /\ pc' = [pc EXCEPT ![b] = "free"]
               /\ last' = Result(b, "Budget", "err", 0)
               /\ UNCHANGED <<budgetVars, balances>>
          ELSE /\ pc' = [pc EXCEPT ![b] = "idle"]
               /\ balances' = [balances EXCEPT ![a] =
                    [ok |-> TRUE, balance |-> avail - amount,
                     openTxns |-> balances[a].openTxns + 1]]
               /\ accountID' = [accountID EXCEPT ![b] = a]
               /\ max' = [max EXCEPT ![b] = amount]
               /\ spent' = [spent EXCEPT ![b] = 0]
               /\ last' = Result(b, "Budget", "ok", 0)
               /\ UNCHANGED <<committed, rem>>
  /\ UNCHANGED <<store, histVars>>

\* ------------------------------------------------------------ budget.Empty
Empty(b) ==
  /\ pc[b] = "idle"
  /\ IF committed[b]
       THEN /\ last' = Result(b, "Empty", "panic", 0)
            /\ UNCHANGED <<spent, histVars>>
       ELSE /\ spent' = [spent EXCEPT ![b] = max[b]]
            /\ last' = Result(b, "Empty", "ok", spent[b])
            /\ spendOnly' = [spendOnly EXCEPT ![b] = FALSE]
            /\ cum' = [cum EXCEPT ![b] = 0]
            /\ UNCHANGED resolved
  /\ UNCHANGED <<pc, accountID, max, committed, rem, balances, store, mu>>

\* Refund without the committed check
RefundUnchecked(b, amount) ==
  /\ pc[b] = "idle"
  /\ IF amount > spent[b]
       THEN /\ last' = Result(b, "Refund", "panic", 0)
            /\ UNCHANGED <<spent, histVars>>
       ELSE /\ spent' = [spent EXCEPT ![b] = spent[b] - amount]
            /\ last' = Result(b, "Refund", "ok", 0)
            /\ spendOnly' = [spendOnly EXCEPT ![b] = FALSE]
            /\ cum' = [cum EXCEPT ![b] = 0]
            /\ UNCHANGED resolved
  /\ UNCHANGED <<pc, accountID, max, committed, rem, balances, store, mu>>

\* Refund without the amount > spent check
RefundUnbounded(b, amount) ==
  /\ pc[b] = "idle"
  /\ IF committed[b]
       THEN /\ last' = Result(b, "Refund", "panic", 0)
            /\ UNCHANGED <<spent, histVars>>
       ELSE /\ spent' = [spent EXCEPT ![b] = spent[b] - amount]
            /\ last' = Result(b, "Refund", "ok", 0)
            /\ spendOnly' = [spendOnly EXCEPT ![b] = FALSE]
            /\ cum' = [cum EXCEPT ![b] = 0]
            /\ UNCHANGED resolved
  /\ UNCHANGED <<pc, accountID, max, committed, rem, balances, store, mu>>

\* ----------------------------------------------------------- budget.Refund
Refund(b, amount) ==
  /\ pc[b] = "idle"
  /\ IF committed[b]
       THEN /\ last' = Result(b, "Refund", "panic", 0)
            /\ UNCHANGED <<spent, histVars>>
       ELSE IF amount > spent[b]
         THEN /\ last' = Result(b, "Refund", "panic", 0)
              /\ UNCHANGED <<spent, histVars>>
         ELSE /\ spent' = [spent EXCEPT ![b] = spent[b] - amount]
              /\ last' = Result(b, "Refund", "ok", 0)
              /\ spendOnly' = [spendOnly EXCEPT ![b] = FALSE]
              /\ cum' = [cum EXCEPT ![b] = 0]
              /\ UNCHANGED resolved
  /\ UNCHANGED <<pc, accountID, max, committed, rem, balances, store, mu>>

\* Spend that refuses to use the budget up: max <= spent + amount fails
SpendStrict(b, amount) ==
  /\ pc[b] = "idle"
  /\ LET total == spent[b] + amount
     IN IF max[b] <= total
          THEN /\ last' = Result(b, "Spend", "err", 0)
               /\ UNCHANGED spent
          ELSE /\ spent' = [spent EXCEPT ![b] = total]
               /\ last' = Result(b, "Spend", "ok", 0)
  /\ cum' = [cum EXCEPT ![b] =
       IF spendOnly[b] /\ ~committed[b] THEN Min(cum[b] + amount, max[b] + 1) ELSE 0]
  /\ UNCHANGED <<resolved, spendOnly>>
  /\ UNCHANGED <<pc, accountID, max, committed, rem, balances, store, mu>>

\* Spend that stores the new total before it compares it with max
SpendAssignFirst(b, amount) ==
  /\ pc[b] = "idle"
  /\ LET total == spent[b] + amount
     IN /\ spent' = [spent EXCEPT ![b] = total]
        /\ IF max[b] < total
             THEN last' = Result(b, "Spend", "err", 0)
             ELSE last' = Result(b, "Spend", "ok", 0)
  /\ cum' = [cum EXCEPT ![b] =
       IF spendOnly[b] /\ ~committed[b] THEN Min(cum[b] + amount, max[b] + 1) ELSE 0]
  /\ UNCHANGED <<resolved, spendOnly>>
  /\ UNCHANGED <<pc, accountID, max, committed, rem, balances, store, mu>>

\* ------------------------------------------------------------ budget.Spend
Spend(b, amount) ==
  /\ pc[b] = "idle"
  /\ LET total == spent[b] + amount
     IN IF max[b] < total
          THEN /\ last' = Result(b, "Spend", "err", 0)
               /\ UNCHANGED spent
          ELSE /\ spent' = [spent EXCEPT ![b] = total]
               /\ last' = Result(b, "Spend", "ok", 0)
  /\ cum' = [cum EXCEPT ![b] =
       IF spendOnly[b] /\ ~committed[b] THEN Min(cum[b] + amount, max[b] + 1) ELSE 0]
  /\ UNCHANGED <<resolved, spendOnly>>
  /\ UNCHANGED <<pc, accountID, max, committed, rem, balances, store, mu>>

\* --------------------------------------------------------- budget.Rollback
\* a committed budget: return nil at once
RollbackCommitted(b) ==
  /\ pc[b] = "idle"
  /\ committed[b]
  /\ last' = Result(b, "Rollback", "ok", 0)
  /\ UNCHANGED <<pc, budgetVars, balances, store, mu, histVars>>

\* otherwise b.am.mu.Lock()
RollbackLock(b) ==
  /\ pc[b] = "idle"
  /\ ~committed[b]
  /\ mu = 0
  /\ mu' = b
  /\ pc' = [pc EXCEPT ![b] = "rb_cs"]
  /\ last' = Result(b, "RollbackLock", "ok", 0)
  /\ UNCHANGED <<budgetVars, balances, store, histVars>>

\* Rollback whose body adds back delta(b) instead of b.max
RollbackUpdateWith(b, delta) ==
  /\ pc[b] = "rb_cs"
  /\ mu = b
  /\ mu' = 0
  /\ pc' = [pc EXCEPT ![b] = "idle"]
  /\ LET a == accountID[b]
         state == balances[a]
     IN IF ~state.ok
          THEN /\ last' = Result(b, "Rollback", "panic", 0)
               /\ UNCHANGED <<balances, resolved>>
          ELSE /\ balances' = [balances EXCEPT ![a] =
                    IF state.openTxns - 1 = 0
                      THEN NoEntry
                      ELSE [ok |-> TRUE, balance |-> state.balance + delta,
                            openTxns |-> state.openTxns - 1]]
               /\ resolved' = [resolved EXCEPT ![b] = "rollback"]
               /\ last' = Result(b, "Rollback", "ok", 0)
  /\ UNCHANGED <<budgetVars, store, cum, spendOnly>>

\* Rollback that returns only the unspent part of the reservation
RollbackUpdateUnspent(b) ==
  RollbackUpdateWith(b, max[b] - spent[b])

\* Rollback that returns the amount spent on top of the reservation
RollbackUpdatePlusSpent(b) ==
  RollbackUpdateWith(b, max[b] + spent[b])

\* Rollback that writes the entry back without the openTxns decrement
RollbackUpdateNoDecrement(b) ==
  /\ pc[b] = "rb_cs"
  /\ mu = b
  /\ mu' = 0
  /\ pc' = [pc EXCEPT ![b] = "idle"]
  /\ LET a == accountID[b]
         state == balances[a]
     IN IF ~state.ok
          THEN /\ last' = Result(b, "Rollback", "panic", 0)
               /\ UNCHANGED <<balances, resolved>>
          ELSE /\ balances' = [balances EXCEPT ![a] =
                    IF state.openTxns = 0
                      THEN NoEntry
                      ELSE [ok |-> TRUE, balance |-> state.balance + max[b],
                            openTxns |-> state.openTxns]]
               /\ resolved' = [resolved EXCEPT ![b] = "rollback"]
               /\ last' = Result(b, "Rollback", "ok", 0)
  /\ UNCHANGED <<budgetVars, store, cum, spendOnly>>

\* the body under the lock, and the deferred Unlock
RollbackUpdate(b) ==
  /\ pc[b] = "rb_cs"
  /\ mu = b
  /\ mu' = 0
  /\ pc' = [pc EXCEPT ![b] = "idle"]
  /\ LET a == accountID[b]
         state == balances[a]
     IN IF ~state.ok
          THEN /\ last' = Result(b, "Rollback", "panic", 0)
               /\ UNCHANGED <<balances, resolved>>
          ELSE /\ balances' = [balances EXCEPT ![a] =
                    IF state.openTxns - 1 = 0
                      THEN NoEntry
                      ELSE [ok |-> TRUE, balance |-> state.balance + max[b],
                            openTxns |-> state.openTxns - 1]]
               /\ resolved' = [resolved EXCEPT ![b] = "rollback"]
               /\ last' = Result(b, "Rollback", "ok", 0)
  /\ UNCHANGED <<budgetVars, store, cum, spendOnly>>

\* ----------------------------------------------------------- budget.Commit
\* a committed budget: panic
CommitCommitted(b) ==
  /\ pc[b] = "idle"
  /\ committed[b]
  /\ last' = Result(b, "Commit", "panic", 0)
  /\ UNCHANGED <<pc, budgetVars, balances, store, mu, histVars>>

\* Commit that takes am.mu before the durable debit
CommitCallLocked(b) ==
  /\ pc[b] = "idle"
  /\ ~committed[b]
  /\ mu = 0
  /\ mu' = b
  /\ pc' = [pc EXCEPT ![b] = "debit"]
  /\ last' = Result(b, "CommitCall", "ok", 0)
  /\ UNCHANGED <<budgetVars, balances, store, histVars>>

\* otherwise the call enters b.am.store.Debit, holding no lock
CommitCall(b) ==
  /\ pc[b] = "idle"
  /\ ~committed[b]
  /\ pc' = [pc EXCEPT ![b] = "debit"]
  /\ last' = Result(b, "CommitCall", "ok", 0)
  /\ UNCHANGED <<budgetVars, balances, store, mu, histVars>>

\* Commit that zeroes and flags the budget before it looks at Debit's error
DebitReturnZeroFirst(b) ==
  /\ pc[b] = "debit"
  /\ \E d \in Debit(accountID[b], spent[b]) :
       /\ rem' = [rem EXCEPT ![b] = max[b] - spent[b]]
       /\ max' = [max EXCEPT ![b] = 0]
       /\ spent' = [spent EXCEPT ![b] = 0]
       /\ committed' = [committed EXCEPT ![b] = TRUE]
       /\ IF d.err
            THEN /\ pc' = [pc EXCEPT ![b] = "idle"]
                 /\ last' = Result(b, "Commit", "err", 0)
                 /\ UNCHANGED store
            ELSE /\ store' = [store EXCEPT ![accountID[b]] = d.balance]
                 /\ pc' = [pc EXCEPT ![b] = "commit_lock"]
                 /\ last' = Result(b, "Debit", "ok", 0)
  /\ UNCHANGED <<accountID, balances, mu, histVars>>

\* Commit that debits the whole reservation, b.max, instead of b.spent
DebitReturnMax(b) ==
  /\ pc[b] = "debit"
  /\ \E d \in Debit(accountID[b], max[b]) :
       IF d.err
         THEN /\ pc' = [pc EXCEPT ![b] = "idle"]
              /\ last' = Result(b, "Commit", "err", 0)
              /\ UNCHANGED <<budgetVars, store>>
         ELSE /\ store' = [store EXCEPT ![accountID[b]] = d.balance]
              /\ rem' = [rem EXCEPT ![b] = max[b] - spent[b]]
              /\ max' = [max EXCEPT ![b] = 0]
              /\ spent' = [spent EXCEPT ![b] = 0]
              /\ committed' = [committed EXCEPT ![b] = TRUE]
              /\ pc' = [pc EXCEPT ![b] = "commit_lock"]
              /\ last' = Result(b, "Debit", "ok", 0)
              /\ UNCHANGED accountID
  /\ UNCHANGED <<balances, mu, histVars>>

\* Debit returns: an error ends the call; otherwise the ledger is debited,
\* rem is computed, and the budget is zeroed and flagged (lines 117-125)
DebitReturn(b) ==
  /\ pc[b] = "debit"
  /\ \E d \in Debit(accountID[b], spent[b]) :
       IF d.err
         THEN /\ pc' = [pc EXCEPT ![b] = "idle"]
              /\ last' = Result(b, "Commit", "err", 0)
              /\ UNCHANGED <<budgetVars, store>>
         ELSE /\ store' = [store EXCEPT ![accountID[b]] = d.balance]
              /\ rem' = [rem EXCEPT ![b] = max[b] - spent[b]]
              /\ max' = [max EXCEPT ![b] = 0]
              /\ spent' = [spent EXCEPT ![b] = 0]
              /\ committed' = [committed EXCEPT ![b] = TRUE]
              /\ pc' = [pc EXCEPT ![b] = "commit_lock"]
              /\ last' = Result(b, "Debit", "ok", 0)
              /\ UNCHANGED accountID
  /\ UNCHANGED <<balances, mu, histVars>>

\* b.am.mu.Lock()
CommitLock(b) ==
  /\ pc[b] = "commit_lock"
  /\ mu = 0
  /\ mu' = b
  /\ pc' = [pc EXCEPT ![b] = "commit_cs"]
  /\ last' = Result(b, "CommitLock", "ok", 0)
  /\ UNCHANGED <<budgetVars, balances, store, histVars>>

\* Commit that tests openTxns == 0 before the decrement: it never evicts
CommitUpdateNoEvict(b) ==
  /\ pc[b] = "commit_cs"
  /\ mu = b
  /\ mu' = 0
  /\ pc' = [pc EXCEPT ![b] = "idle"]
  /\ LET a == accountID[b]
         state == balances[a]
     IN IF ~state.ok
          THEN /\ last' = Result(b, "Commit", "panic", 0)
               /\ resolved' = [resolved EXCEPT ![b] = "crashed"]
               /\ UNCHANGED balances
          ELSE \E o \in SubOutcomes(max[b], rem[b]) :
                 IF o.panic
                   THEN /\ last' = Result(b, "Commit", "panic", 0)
                        /\ resolved' = [resolved EXCEPT ![b] = "crashed"]
                        /\ UNCHANGED balances
                   ELSE /\ balances' = [balances EXCEPT ![a] =
                             [ok |-> TRUE, balance |-> state.balance + o.v,
                              openTxns |-> state.openTxns - 1]]
                        /\ resolved' = [resolved EXCEPT ![b] = "commit"]
                        /\ last' = Result(b, "Commit", "ok", 0)
  /\ rem' = [rem EXCEPT ![b] = 0]
  /\ UNCHANGED <<accountID, max, spent, committed, store, cum, spendOnly>>

\* the body under the lock (lines 130-144), and the deferred Unlock
CommitUpdate(b) ==
  /\ pc[b] = "commit_cs"
  /\ mu = b
  /\ mu' = 0
  /\ pc' = [pc EXCEPT ![b] = "idle"]
  /\ LET a == accountID[b]
         state == balances[a]
     IN IF ~state.ok
          THEN /\ last' = Result(b, "Commit", "panic", 0)
               /\ resolved' = [resolved EXCEPT ![b] = "crashed"]
               /\ UNCHANGED balances
          ELSE IF state.openTxns - 1 = 0
            THEN /\ balances' = [balances EXCEPT ![a] = NoEntry]
                 /\ resolved' = [resolved EXCEPT ![b] = "commit"]
                 /\ last' = Result(b, "Commit", "ok", 0)
            ELSE \E o \in SubOutcomes(max[b], rem[b]) :
                   IF o.panic
                     THEN /\ last' = Result(b, "Commit", "panic", 0)
                          /\ resolved' = [resolved EXCEPT ![b] = "crashed"]
                          /\ UNCHANGED balances
                     ELSE /\ balances' = [balances EXCEPT ![a] =
                               [ok |-> TRUE, balance |-> state.balance + o.v,
                                openTxns |-> state.openTxns - 1]]
                          /\ resolved' = [resolved EXCEPT ![b] = "commit"]
                          /\ last' = Result(b, "Commit", "ok", 0)
  /\ rem' = [rem EXCEPT ![b] = 0]
  /\ UNCHANGED <<accountID, max, spent, committed, store, cum, spendOnly>>

\* The request that owned a resolved budget ends and drops it; the slot
\* serves a later request.
Release(b) ==
  /\ pc[b] = "idle"
  /\ resolved[b] \in {"commit", "rollback"}
  /\ pc' = [pc EXCEPT ![b] = "free"]
  /\ accountID' = [accountID EXCEPT ![b] = 0]
  /\ max' = [max EXCEPT ![b] = 0]
  /\ spent' = [spent EXCEPT ![b] = 0]
  /\ committed' = [committed EXCEPT ![b] = FALSE]
  /\ resolved' = [resolved EXCEPT ![b] = "no"]
  /\ cum' = [cum EXCEPT ![b] = 0]
  /\ spendOnly' = [spendOnly EXCEPT ![b] = TRUE]
  /\ last' = Result(b, "Release", "ok", 0)
  /\ UNCHANGED <<rem, balances, store, mu>>

\* ---------------------------------------------------------- specifications
\* The caller keeps the budget's contract: any number of Spend, Refund and
\* Empty calls, then one Commit or Rollback (a Commit whose debit failed may
\* be retried or rolled back; Rollback after Commit is allowed, a no-op).
Live(b) ==
  resolved[b] = "no"

Next ==
  \/ \E b \in Budgets : BudgetLock(b) /\ UNCHANGED otherVars
  \/ \E b \in Budgets, a \in Accounts, amount \in Amounts : BudgetCreate(b, a, amount) /\ UNCHANGED otherVars
  \/ \E b \in Budgets : Live(b) /\ Empty(b) /\ UNCHANGED otherVars
  \/ \E b \in Budgets, amount \in Amounts : Live(b) /\ Refund(b, amount) /\ UNCHANGED otherVars
  \/ \E b \in Budgets, amount \in Amounts : Live(b) /\ Spend(b, amount) /\ UNCHANGED otherVars
  \/ \E b \in Budgets : RollbackCommitted(b) /\ UNCHANGED otherVars
  \/ \E b \in Budgets : Live(b) /\ RollbackLock(b) /\ UNCHANGED otherVars
  \/ \E b \in Budgets : RollbackUpdate(b) /\ UNCHANGED otherVars
  \/ \E b \in Budgets : Live(b) /\ CommitCall(b) /\ UNCHANGED otherVars
  \/ \E b \in Budgets : DebitReturn(b) /\ UNCHANGED otherVars
  \/ \E b \in Budgets : CommitLock(b) /\ UNCHANGED otherVars
  \/ \E b \in Budgets : CommitUpdate(b) /\ UNCHANGED otherVars
  \/ \E b \in Budgets : Release(b) /\ UNCHANGED otherVars

Spec ==
  Init /\ [][Next]_vars

\* Callers that break the contract as well: any call on any budget that
\* exists, resolved or not; the resolved budgets are kept.
NextMisuse ==
  \/ \E b \in Budgets : BudgetLock(b) /\ UNCHANGED otherVars
  \/ \E b \in Budgets, a \in Accounts, amount \in Amounts : BudgetCreate(b, a, amount) /\ UNCHANGED otherVars
  \/ \E b \in Budgets : Empty(b) /\ UNCHANGED otherVars
  \/ \E b \in Budgets, amount \in Amounts : Refund(b, amount) /\ UNCHANGED otherVars
  \/ \E b \in Budgets, amount \in Amounts : Spend(b, amount) /\ UNCHANGED otherVars
  \/ \E b \in Budgets : RollbackCommitted(b) /\ UNCHANGED otherVars
  \/ \E b \in Budgets : RollbackLock(b) /\ UNCHANGED otherVars
  \/ \E b \in Budgets : RollbackUpdate(b) /\ UNCHANGED otherVars
  \/ \E b \in Budgets : CommitCommitted(b) /\ UNCHANGED otherVars
  \/ \E b \in Budgets : CommitCall(b) /\ UNCHANGED otherVars
  \/ \E b \in Budgets : DebitReturn(b) /\ UNCHANGED otherVars
  \/ \E b \in Budgets : CommitLock(b) /\ UNCHANGED otherVars
  \/ \E b \in Budgets : CommitUpdate(b) /\ UNCHANGED otherVars

SpecMisuse ==
  Init /\ [][NextMisuse]_vars

\* ---------------------------------------------- contract sector roots
\* ContractStore.RunUpdate(fn) runs fn inside one transaction; fn issues
\* AppendSector / SwapSectors / TrimSectors on the transaction, each against
\* the list as the operations before it left it (tx.work); the store keeps
\* the list (roots) until the transaction commits.  tx.queue is the batch
\* issued so far; after RunUpdate returned, tx keeps the batch and the
\* outcome of that call.

\* the operations a callback issues
AppendOp(root) ==
  [op |-> "append", x |-> root, y |-> 0]
SwapOp(i, j) ==
  [op |-> "swap", x |-> i, y |-> j]
TrimOp(n) ==
  [op |-> "trim", x |-> n, y |-> 0]

\* ContractStore.SectorRoots(contractID, offset, limit): the window of the
\* stored list, whatever remains when it reaches beyond the end
SectorRoots(offset, limit) ==
  SubSeq(roots, offset + 1, Min(offset + limit, Len(roots)))

\* the callback may issue one more operation
CanIssue ==
  tx.open /\ tx.failed = "no" /\ Len(tx.queue) < MaxOps

\* RunUpdate opens the transaction and calls fn
RunUpdate ==
  /\ ~tx.open
  /\ tx' = [open |-> TRUE, work |-> roots, queue |-> <<>>, failed |-> "no",
            res |-> "none"]
  /\ UNCHANGED roots

\* the new root goes to the front
AppendSectorFront(root) ==
  /\ CanIssue
  /\ Len(tx.work) < MaxLen
  /\ tx' = [tx EXCEPT !.work = <<root>> \o @, !.queue = Append(@, AppendOp(root))]
  /\ UNCHANGED roots

\* tx.AppendSector(root): the root goes to the tail
AppendSector(root) ==
  /\ CanIssue
  /\ Len(tx.work) < MaxLen
  /\ tx' = [tx EXCEPT !.work = Append(@, root), !.queue = Append(@, AppendOp(root))]
  /\ UNCHANGED roots

\* position i takes j's root and j keeps its own
SwapSectorsCopy(i, j) ==
  /\ CanIssue
  /\ IF i < Len(tx.work) /\ j < Len(tx.work)
       THEN tx' = [tx EXCEPT !.work = [@ EXCEPT ![i + 1] = tx.work[j + 1]],
                             !.queue = Append(@, SwapOp(i, j))]
       ELSE tx' = [tx EXCEPT !.failed = "swap"]
  /\ UNCHANGED roots

\* tx.SwapSectors(i, j): both indices are checked against the length the
\* list has now, then the two roots change places
SwapSectors(i, j) ==
  /\ CanIssue
  /\ IF i < Len(tx.work) /\ j < Len(tx.work)
       THEN tx' = [tx EXCEPT !.work = [@ EXCEPT ![i + 1] = tx.work[j + 1],
                                                ![j + 1] = tx.work[i + 1]],
                             !.queue = Append(@, SwapOp(i, j))]
       ELSE tx' = [tx EXCEPT !.failed = "swap"]
  /\ UNCHANGED roots

\* the first n roots go
TrimSectorsFront(n) ==
  /\ CanIssue
  /\ IF n <= Len(tx.work)
       THEN tx' = [tx EXCEPT !.work = SubSeq(@, n + 1, Len(@)),
                             !.queue = Append(@, TrimOp(n))]
       ELSE tx' = [tx EXCEPT !.failed = "trim"]
  /\ UNCHANGED roots

\* tx.TrimSectors(n): n is checked against the length the list has now,
\* then the last n roots go
TrimSectors(n) ==
  /\ CanIssue
  /\ IF n <= Len(tx.work)
       THEN tx' = [tx EXCEPT !.work = SubSeq(@, 1, Len(@) - n),
                             !.queue = Append(@, TrimOp(n))]
       ELSE tx' = [tx EXCEPT !.failed = "trim"]
  /\ UNCHANGED roots

\* fn returned nil: the transaction commits and the list is the working one
RunUpdateCommit ==
  /\ tx.open
  /\ tx.failed = "no"
  /\ roots' = tx.work
  /\ tx' = [tx EXCEPT !.open = FALSE, !.res = "ok"]

\* the operations before the failure stay applied
RunUpdateAbortPartial ==
  /\ tx.open
  /\ roots' = tx.work
  /\ tx' = [tx EXCEPT !.open = FALSE, !.res = "err"]

\* fn returned an error, its own or a failed operation's: the transaction
\* is rolled back and RunUpdate returns the error
RunUpdateAbort ==
  /\ tx.open
  /\ UNCHANGED roots
  /\ tx' = [tx EXCEPT !.open = FALSE, !.res = "err"]

NextRoots ==
  \/ RunUpdate /\ UNCHANGED <<accountVars, ann>>
  \/ \E root \in Hashes : AppendSector(root) /\ UNCHANGED <<accountVars, ann>>
  \/ \E i \in Indices, j \in Indices : SwapSectors(i, j) /\ UNCHANGED <<accountVars, ann>>
  \/ \E n \in Indices : TrimSectors(n) /\ UNCHANGED <<accountVars, ann>>
  \/ RunUpdateCommit /\ UNCHANGED <<accountVars, ann>>
  \/ RunUpdateAbort /\ UNCHANGED <<accountVars, ann>>

SpecRoots ==
  Init /\ [][NextRoots]_vars

\* ------------------------------------------------------------- Announce
\* ConfigManager.Announce, one call at a time.  ann.pc is the call's
\* position; funded / released / inPool / bcast say what the call has done
\* with its transaction and res what it returned.  The collaborators are
\* counted: the transactions whose inputs the wallet holds locked, those
\* the pool accepted, those the syncer broadcast.  The chain's tip is
\* ann.height; the v2 hardfork is allowed from AllowHeight.

\* Announce is called: the address is validated if the manager is set to,
\* then the tip decides between the v1 and the v2 transaction
AnnounceCall(validate, valid) ==
  /\ ann.pc = "idle"
  /\ ann.calls < MaxCalls
  /\ IF validate /\ ~valid
       THEN ann' = [ann EXCEPT !.calls = @ + 1, !.funded = FALSE, !.released = FALSE,
                               !.inPool = FALSE, !.bcast = FALSE, !.res = "err"]
       ELSE ann' = [ann EXCEPT !.calls = @ + 1, !.funded = FALSE, !.released = FALSE,
                               !.inPool = FALSE, !.bcast = FALSE, !.res = "none",
                               !.v2 = ~(ann.height < AllowHeight),
                               !.pc = IF ann.height < AllowHeight THEN "fund" ELSE "fund2"]

\* wallet.FundTransaction, then SignTransaction
FundTransaction(ok) ==
  /\ ann.pc = "fund"
  /\ IF ok
       THEN ann' = [ann EXCEPT !.funded = TRUE, !.locked = @ + 1, !.pc = "pool"]
       ELSE ann' = [ann EXCEPT !.res = "err", !.pc = "idle"]

\* chain.AddPoolTransactions; on its error the inputs are released
AddPoolTransactions(ok) ==
  /\ ann.pc = "pool"
  /\ IF ok
       THEN ann' = [ann EXCEPT !.inPool = TRUE, !.pooled = @ + 1, !.pc = "bcast"]
       ELSE ann' = [ann EXCEPT !.released = TRUE, !.locked = @ - 1,
                               !.res = "err", !.pc = "idle"]

\* syncer.BroadcastTransactionSet, and Announce returns nil
BroadcastTransactionSet ==
  /\ ann.pc = "bcast"
  /\ ann' = [ann EXCEPT !.bcast = TRUE, !.sent = @ + 1, !.res = "ok", !.pc = "idle"]

\* wallet.FundV2Transaction, then SignV2Inputs
FundV2Transaction(ok) ==
  /\ ann.pc = "fund2"
  /\ IF ok
       THEN ann' = [ann EXCEPT !.funded = TRUE, !.locked = @ + 1, !.pc = "txnset"]
       ELSE ann' = [ann EXCEPT !.res = "err", !.pc = "idle"]

\* chain.V2TransactionSet; on its error the inputs are released
V2TransactionSet(ok) ==
  /\ ann.pc = "txnset"
  /\ IF ok
       THEN ann' = [ann EXCEPT !.pc = "pool2"]
       ELSE ann' = [ann EXCEPT !.released = TRUE, !.locked = @ - 1,
                               !.res = "err", !.pc = "idle"]

\* the error is returned and the inputs stay locked
AddV2PoolTransactionsKeep(ok) ==
  /\ ann.pc = "pool2"
  /\ IF ok
       THEN ann' = [ann EXCEPT !.inPool = TRUE, !.pooled = @ + 1, !.pc = "bcast2"]
       ELSE ann' = [ann EXCEPT !.res = "err", !.pc = "idle"]

\* chain.AddV2PoolTransactions; on its error the inputs are released
AddV2PoolTransactions(ok) ==
  /\ ann.pc = "pool2"
  /\ IF ok
       THEN ann' = [ann EXCEPT !.inPool = TRUE, !.pooled = @ + 1, !.pc = "bcast2"]
       ELSE ann' = [ann EXCEPT !.released = TRUE, !.locked = @ - 1,
                               !.res = "err", !.pc = "idle"]

\* syncer.BroadcastV2TransactionSet, and Announce returns nil
BroadcastV2TransactionSet ==
  /\ ann.pc = "bcast2"
  /\ ann' = [ann EXCEPT !.bcast = TRUE, !.sent = @ + 1, !.res = "ok", !.pc = "idle"]

\* the chain's tip moves on, at any time
TipAdvance ==
  /\ ann.height < MaxHeight
  /\ ann' = [ann EXCEPT !.height = @ + 1]

NextAnnounce ==
  \/ \E validate \in BOOLEAN, valid \in BOOLEAN :
       AnnounceCall(validate, valid) /\ UNCHANGED <<accountVars, rootVars>>
  \/ \E ok \in BOOLEAN : FundTransaction(ok) /\ UNCHANGED <<accountVars, rootVars>>
  \/ \E ok \in BOOLEAN : AddPoolTransactions(ok) /\ UNCHANGED <<accountVars, rootVars>>
  \/ BroadcastTransactionSet /\ UNCHANGED <<accountVars, rootVars>>
  \/ \E ok \in BOOLEAN : FundV2Transaction(ok) /\ UNCHANGED <<accountVars, rootVars>>
  \/ \E ok \in BOOLEAN : V2TransactionSet(ok) /\ UNCHANGED <<accountVars, rootVars>>
  \/ \E ok \in BOOLEAN : AddV2PoolTransactions(ok) /\ UNCHANGED <<accountVars, rootVars>>
  \/ BroadcastV2TransactionSet /\ UNCHANGED <<accountVars, rootVars>>
  \/ TipAdvance /\ UNCHANGED <<accountVars, rootVars>>

SpecAnnounce ==
  Init /\ [][NextAnnounce]_vars

TypeOK ==
  /\ pc \in [Budgets -> {"free", "new_cs", "idle", "debit", "commit_lock", "commit_cs", "rb_cs"}]
  /\ mu \in 0..NumBudgets
  /\ \A b \in Budgets : spent[b] >= 0 /\ max[b] >= spent[b] /\ rem[b] >= 0
  /\ \A a \in Accounts : store[a] >= 0 /\ balances[a].balance >= 0
  /\ Len(roots) <= MaxLen /\ \A k \in 1..Len(roots) : roots[k] \in Hashes
  /\ Len(tx.work) <= MaxLen /\ Len(tx.queue) <= MaxOps
  /\ tx.failed \in {"no", "swap", "trim"} /\ tx.res \in {"none", "ok", "err"}
  /\ ann.pc \in {"idle", "fund", "pool", "bcast", "fund2", "txnset", "pool2", "bcast2"}
  /\ ann.height \in 0..MaxHeight /\ ann.calls \in 0..MaxCalls
  /\ ann.locked \in 0..MaxCalls /\ ann.pooled \in 0..MaxCalls /\ ann.sent \in 0..MaxCalls

\* ------------------------------------------------------------------ claims
\* the budget exists: AccountManager.Budget returned it
Created(b) ==
  pc[b] \notin {"free", "new_cs"}

\* the budget exists and neither Commit nor Rollback has returned for it
Outstanding(b) ==
  Created(b) /\ resolved[b] = "no"

RECURSIVE SumOver(_, _)
SumOver(f, S) ==
  IF S = {} THEN 0
  ELSE LET x == CHOOSE y \in S : TRUE IN f[x] + SumOver(f, S \ {x})

\* the reservations of the account's outstanding budgets
Reserved(a) ==
  SumOver(max, {b \in Budgets : Outstanding(b) /\ accountID[b] = a})

\* this step is the return of b's Debit without an error
DebitOkStep(b) ==
  pc[b] = "debit" /\ pc'[b] = "commit_lock"
\* this step is the return of b's Commit with Debit's error
DebitErrStep(b) ==
  pc[b] = "debit" /\ pc'[b] = "idle"
\* this step is the locked body of b's Commit
CommitStep(b) ==
  pc[b] = "commit_cs" /\ pc'[b] = "idle"
\* this step is the locked body of b's Rollback
RollbackStep(b) ==
  pc[b] = "rb_cs" /\ pc'[b] = "idle"
\* this step belongs to a call on b, and is the step named op
StepBy(b, op) ==
  last'.b = b /\ last'.op = op

\* C1 (as claimed): a Commit whose debit succeeds takes exactly spent from
\* the ledger, and, other budgets of the account being open, returns and
\* adds exactly rem = max - spent to the cached balance.
C1_CommitReturnsRemainder ==
  [][\A b \in Budgets :
       /\ DebitOkStep(b) =>
            store'[accountID[b]] = store[accountID[b]] - spent[b]
       /\ (CommitStep(b) /\ balances[accountID[b]].openTxns > 1) =>
            /\ last'.res = "ok"
            /\ balances'[accountID[b]].balance =
                 balances[accountID[b]].balance + rem[b]]_vars

\* C2 (as claimed): Rollback of an uncommitted budget leaves the account
\* cached with balance + max and openTxns - 1, and debits nothing.
C2_RollbackRestoresMax ==
  [][\A b \in Budgets : RollbackStep(b) =>
       /\ balances'[accountID[b]].ok
       /\ balances'[accountID[b]].balance = balances[accountID[b]].balance + max[b]
       /\ balances'[accountID[b]].openTxns = balances[accountID[b]].openTxns - 1
       /\ store' = store]_vars

\* C2 (amended): Rollback of an uncommitted budget whose account is cached
\* debits nothing and takes one from openTxns; while other budgets of the
\* account stay counted it adds exactly max to the cached balance, whatever
\* was spent; when it was the last one counted the entry is evicted instead.
C2_RollbackRestoresMaxOrEvicts ==
  [][\A b \in Budgets : (RollbackStep(b) /\ balances[accountID[b]].ok) =>
       /\ store' = store
       /\ last'.res = "ok"
       /\ balances'[accountID[b]] =
            IF balances[accountID[b]].openTxns = 1
              THEN NoEntry
              ELSE [ok |-> TRUE,
                    balance |-> balances[accountID[b]].balance + max[b],
                    openTxns |-> balances[accountID[b]].openTxns - 1]]_vars

\* a Rollback returned for a budget that had spent, its account still cached
C2_Witness ==
  \E b \in Budgets :
    /\ last = Result(b, "Rollback", "ok", 0)
    /\ resolved[b] = "rollback"
    /\ spent[b] > 0
    /\ balances[accountID[b]].ok

\* C3: the reservations (max) of an account's outstanding budgets never add
\* up to more than the account's durable balance.
C3_ReservedWithinBalance ==
  \A a \in Accounts : Reserved(a) <= store[a]

\* two budgets hold the whole of an account's balance between them: nothing
\* is left to reserve
C3_Witness ==
  \E a \in Accounts :
    /\ Cardinality({b \in Budgets : Outstanding(b) /\ accountID[b] = a /\ max[b] > 0}) >= 2
    /\ Reserved(a) = store[a]
    /\ balances[a].balance = 0

\* C4 (as claimed): Spend on a budget whose Commit returned panics.
C4_SpendAfterCommitPanics ==
  [][\A b \in Budgets : (resolved[b] = "commit" /\ StepBy(b, "Spend")) =>
       last'.res = "panic"]_vars

\* C5: on a budget whose Commit returned, Refund, Empty and Commit panic and
\* Rollback returns nil; none of them changes the budget, the table, the
\* ledger or the lock.
C5_AfterCommit ==
  [][\A b \in Budgets : (resolved[b] = "commit" /\ last'.b = b) =>
       /\ last'.op \in {"Refund", "Empty", "Commit"} =>
            /\ last'.res = "panic"
            /\ UNCHANGED <<pc, budgetVars, balances, store, mu>>
       /\ last'.op = "Rollback" =>
            /\ last'.res = "ok"
            /\ UNCHANGED <<pc, budgetVars, balances, store, mu>>]_vars

\* Refund panicked on a committed budget while its account is still cached
C5_Witness ==
  \E b \in Budgets :
    /\ resolved[b] = "commit"
    /\ last = Result(b, "Refund", "panic", 0)
    /\ balances[accountID[b]].ok

\* C6 (as claimed): on a budget whose Rollback returned, a further Rollback
\* or Commit panics and changes neither the table nor the ledger.
C6_SecondResolveFatal ==
  [][\A b \in Budgets :
       (/\ resolved[b] = "rollback"
        /\ last'.b = b
        /\ last'.op \in {"RollbackLock", "Rollback", "CommitCall", "Debit",
                         "CommitLock", "Commit"}) =>
       /\ balances' = balances
       /\ store' = store
       /\ last'.op \in {"Rollback", "Debit", "Commit"} => last'.res = "panic"]_vars

\* C7: an account is in the table exactly while one of its budgets has not
\* been resolved by a Commit or Rollback that returned.
C7_CachedWhileUnresolved ==
  \A a \in Accounts :
    balances[a].ok <=>
      \E b \in Budgets :
        Created(b) /\ accountID[b] = a /\ resolved[b] \notin {"commit", "rollback"}

\* one of two budgets of an account is resolved, the other is not
C7_Witness ==
  \E b, c \in Budgets :
    /\ b # c
    /\ Created(b) /\ Created(c)
    /\ accountID[b] = accountID[c]
    /\ resolved[b] \in {"commit", "rollback"}
    /\ resolved[c] = "no"
    /\ balances[accountID[b]].ok

\* C8: when Debit fails, Commit returns the error and leaves the budget, the
\* table and the lock as they were; the budget is still unresolved.
C8_DebitErrorChangesNothing ==
  [][\A b \in Budgets : DebitErrStep(b) =>
       /\ last' = Result(b, "Commit", "err", 0)
       /\ UNCHANGED <<budgetVars, balances, mu, resolved>>
       /\ ~committed'[b]]_vars

\* Commit returned Debit's error for a budget that has spent
C8_Witness ==
  \E b \in Budgets :
    /\ last = Result(b, "Commit", "err", 0)
    /\ pc[b] = "idle"
    /\ spent[b] > 0
    /\ max[b] > spent[b]

\* a task inside Debit does not hold am.mu
DebitHoldsNoLock ==
  \A b \in Budgets : pc[b] = "debit" => mu # b

\* while a Commit is inside Debit and am.mu is free, the other budgets' calls
\* that need am.mu can take it; whoever holds am.mu is in a locked body that
\* can finish
OthersProceed ==
  /\ \A b, c \in Budgets : (b # c /\ pc[b] = "debit" /\ mu = 0) =>
       /\ (pc[c] = "idle" /\ ~committed[c]) => ENABLED RollbackLock(c)
       /\ pc[c] = "commit_lock" => ENABLED CommitLock(c)
       /\ (pc[c] = "free" /\ \A e \in Budgets : e < c => pc[e] # "free") =>
            ENABLED BudgetLock(c)
  /\ mu # 0 =>
       /\ pc[mu] \in {"new_cs", "rb_cs", "commit_cs"}
       /\ ENABLED (\/ \E a \in Accounts, amount \in Amounts : BudgetCreate(mu, a, amount)
                   \/ RollbackUpdate(mu)
                   \/ CommitUpdate(mu))

\* C9: Debit runs without am.mu, so the other budgets' calls go on while a
\* Commit is inside Debit; the table changes only in a step of the task that
\* holds am.mu.
C9_DebitOutsideLock ==
  /\ [](DebitHoldsNoLock /\ OthersProceed)
  /\ [][balances' # balances => (mu # 0 /\ last'.b = mu /\ mu' = 0)]_vars

\* a Commit of another budget of the same account returned while b's Commit
\* was inside Debit
C9_Witness ==
  \E b, c \in Budgets :
    /\ b # c
    /\ pc[b] = "debit"
    /\ accountID[b] = accountID[c]
    /\ last = Result(c, "Commit", "ok", 0)

\* C10: as long as only Spend was called on an uncommitted budget and the
\* amounts passed add up to no more than max, the last Spend succeeded and
\* Remaining() is max less that sum.
C10_SpendWithinMax ==
  \A b \in Budgets :
    (Created(b) /\ ~committed[b] /\ spendOnly[b] /\ cum[b] <= max[b]) =>
      /\ Remaining(b) = max[b] - cum[b]
      /\ (last.b = b /\ last.op = "Spend") => last.res = "ok"

\* Spend calls have used up a budget of the largest size
C10_Witness ==
  \E b \in Budgets :
    /\ last = Result(b, "Spend", "ok", 0)
    /\ spendOnly[b]
    /\ max[b] = MaxAmount
    /\ cum[b] = max[b]
    /\ Remaining(b) = 0

\* C11: a Spend that would take spent beyond max returns the error and
\* changes nothing of the budget, the table, the ledger or the lock.
C11_SpendBeyondMaxFails ==
  [][\A b \in Budgets, amount \in Amounts :
       (Spend(b, amount) /\ spent[b] + amount > max[b]) =>
         /\ last'.res = "err"
         /\ UNCHANGED <<pc, budgetVars, balances, store, mu, resolved>>]_vars

\* Spend was refused on a budget that is open and partly spent
C11_Witness ==
  \E b \in Budgets :
    /\ last = Result(b, "Spend", "err", 0)
    /\ Outstanding(b) /\ ~committed[b]
    /\ spent[b] > 0
    /\ spent[b] < max[b]

\* C12 (as claimed): Empty on an uncommitted budget sets spent to max and
\* returns what was unspent before the call, max - spent.
C12_EmptyReturnsUnspent ==
  [][\A b \in Budgets : (StepBy(b, "Empty") /\ ~committed[b]) =>
       /\ spent'[b] = max[b]
       /\ last'.val = max[b] - spent[b]]_vars

\* C13: an uncommitted budget keeps 0 <= spent <= max; Spend, Refund and
\* Empty leave max alone; Refund(amount) takes exactly amount from spent when
\* amount <= spent, and otherwise panics and leaves spent alone.
C13_SpentWithinMax ==
  /\ [](\A b \in Budgets : (Created(b) /\ ~committed[b]) =>
          (0 <= spent[b] /\ spent[b] <= max[b]))
  /\ [][\A b \in Budgets :
          /\ (last'.b = b /\ last'.op \in {"Spend", "Refund", "Empty"}) =>
               max'[b] = max[b]
          /\ \A amount \in Amounts : (~committed[b] /\ Refund(b, amount)) =>
               IF amount <= spent[b]
                 THEN last'.res = "ok" /\ spent'[b] = spent[b] - amount
                 ELSE last'.res = "panic" /\ spent'[b] = spent[b]]_vars

\* a Refund took part of what an open budget had spent
C13_Witness ==
  \E b \in Budgets :
    /\ last = Result(b, "Refund", "ok", 0)
    /\ Outstanding(b) /\ ~committed[b]
    /\ spent[b] > 0
    /\ spent[b] < max[b]

\* the account's budgets for which no Commit or Rollback has returned
Unresolved(a) ==
  {b \in Budgets :
     Created(b) /\ accountID[b] = a /\ resolved[b] \notin {"commit", "rollback"}}

\* C18: every account in the table counts, in openTxns, exactly its budgets
\* not yet resolved, at least one; so Commit and Rollback find the entry.
C18_OpenTxnsCountsUnresolved ==
  /\ \A a \in Accounts : balances[a].ok =>
       /\ balances[a].openTxns >= 1
       /\ balances[a].openTxns = Cardinality(Unresolved(a))
  /\ \A b \in Budgets :
       pc[b] \in {"rb_cs", "commit_lock", "commit_cs"} => balances[accountID[b]].ok
  /\ last.op = "Rollback" => last.res # "panic"

\* a Commit holds the lock for an account that counts two budgets
C18_Witness ==
  \E b \in Budgets :
    /\ pc[b] = "commit_cs"
    /\ balances[accountID[b]].openTxns = 2

\* C19: the ledger changes only when a Commit's Debit returns, once for the
\* budget (it becomes committed), by exactly its spent; Rollback and every
\* other step leave it alone.  It is never negative, and a Budget request on
\* an account that is not cached finds exactly the ledger's balance.
C19_LedgerDebitedByCommitOnly ==
  /\ [](\A a \in Accounts : store[a] >= 0 /\ store[a] <= InitBalance)
  /\ [][/\ \A a \in Accounts :
             store[a] - store'[a] =
               SumOver(spent, {b \in Budgets :
                 accountID[b] = a /\ ~committed[b] /\ committed'[b] /\ DebitOkStep(b)})
        /\ \A b \in Budgets, a \in Accounts, amount \in Amounts :
             (BudgetCreate(b, a, amount) /\ ~balances[a].ok /\ last'.res = "ok") =>
               balances'[a].balance + amount = store[a]]_vars

\* an account whose whole balance was committed away is out of the table
C19_Witness ==
  \E a \in Accounts :
    /\ store[a] = 0
    /\ ~balances[a].ok
    /\ \A b \in Budgets : accountID[b] # a

\* ------------------------------------------------ contract sector roots
\* this step is RunUpdate's return: nil after the commit, or the error
UpdateCommitted ==
  tx.open /\ ~tx'.open /\ tx'.res = "ok"
UpdateFailed ==
  tx.open /\ ~tx'.open /\ tx'.res = "err"

\* one operation applied to a list, as the interface describes it
ApplyOp(op, list) ==
  CASE op.op = "append" -> list \o <<op.x>>
    [] op.op = "swap" ->
         [k \in 1..Len(list) |->
            IF k = op.x + 1 THEN list[op.y + 1]
            ELSE IF k = op.y + 1 THEN list[op.x + 1] ELSE list[k]]
    [] op.op = "trim" -> [k \in 1..(Len(list) - op.x) |-> list[k]]

\* a batch applied in the order issued, each operation against the list
\* the operations before it left
RECURSIVE ApplyAll(_, _)
ApplyAll(list, queue) ==
  IF queue = <<>> THEN list
  ELSE ApplyAll(ApplyOp(Head(queue), list), Tail(queue))

\* the whole stored list, read with offset 0 and a limit that covers it
AllRoots ==
  SectorRoots(0, MaxLen)

\* C14: a SwapSectors with an index equal to or beyond the list's current
\* length fails the transaction: RunUpdate returns an error and the stored
\* list read afterwards is the list before the call, whatever valid
\* operations the batch issued before it; the stored list changes at no
\* step of a transaction that does not commit.
C14_FailedSwapLeavesRoots ==
  [][/\ \A i \in Indices, j \in Indices :
          (SwapSectors(i, j) /\ (i >= Len(tx.work) \/ j >= Len(tx.work))) =>
            tx'.open /\ tx'.failed = "swap" /\ roots' = roots
     /\ (tx.open /\ tx.failed = "swap") =>
          /\ ~tx'.open /\ tx'.res = "err"
          /\ roots' = roots
          /\ AllRoots' = AllRoots
     /\ ~UpdateCommitted => roots' = roots]_vars

\* RunUpdate returned the error of a swap beyond the list, issued after
\* operations that had changed the working list
C14_Witness ==
  /\ ~tx.open /\ tx.res = "err" /\ tx.failed = "swap"
  /\ Len(tx.queue) >= 1 /\ tx.work # roots
  /\ roots # <<>>

\* the batch holds appends only
AppendsOnly(queue) ==
  \A k \in 1..Len(queue) : queue[k].op = "append"

\* C15: the operations of one RunUpdate callback are applied in the order
\* issued, each against the list the operations before it left; a batch of
\* appends r0..r(k-1) makes the list read back with offset 0 the previous
\* list followed by r0..r(k-1) in that order.
C15_AppliedInOrder ==
  [][UpdateCommitted =>
       /\ roots' = ApplyAll(roots, tx.queue)
       /\ AppendsOnly(tx.queue) =>
            AllRoots' = roots \o [k \in 1..Len(tx.queue) |-> tx.queue[k].x]]_vars

\* a batch of two different roots was appended to a list that held one
C15_Witness ==
  /\ ~tx.open /\ tx.res = "ok"
  /\ Len(tx.queue) = 2 /\ AppendsOnly(tx.queue)
  /\ tx.queue[1].x # tx.queue[2].x
  /\ Len(roots) = 3
  /\ AllRoots = roots

\* C16: a committed SwapSectors(i, j) with both indices below the length
\* gives a list of the same length where the roots at i and j have changed
\* places and every other position holds the root it held.
C16_SwapExchanges ==
  [][\A i \in Indices, j \in Indices :
       (UpdateCommitted /\ tx.queue = <<SwapOp(i, j)>>) =>
         /\ i < Len(roots) /\ j < Len(roots)
         /\ Len(roots') = Len(roots)
         /\ roots'[i + 1] = roots[j + 1]
         /\ roots'[j + 1] = roots[i + 1]
         /\ \A k \in 1..Len(roots) :
              k \notin {i + 1, j + 1} => roots'[k] = roots[k]]_vars

\* a committed swap of two positions that held different roots, in a list
\* with a third position
C16_Witness ==
  /\ ~tx.open /\ tx.res = "ok"
  /\ Len(tx.queue) = 1 /\ tx.queue[1].op = "swap"
  /\ tx.queue[1].x # tx.queue[1].y
  /\ Len(roots) = 3
  /\ roots[tx.queue[1].x + 1] # roots[tx.queue[1].y + 1]

\* C17: a committed TrimSectors(n) with n within the length removes the
\* last n roots: the list is the first (length - n) roots of the list
\* before, in the same order.
C17_TrimRemovesTail ==
  [][\A n \in Indices :
       (UpdateCommitted /\ tx.queue = <<TrimOp(n)>>) =>
         /\ n <= Len(roots)
         /\ Len(roots') = Len(roots) - n
         /\ \A k \in 1..Len(roots') : roots'[k] = roots[k]]_vars

\* a committed trim that removed a root and left two different ones
C17_Witness ==
  /\ ~tx.open /\ tx.res = "ok"
  /\ Len(tx.queue) = 1 /\ tx.queue[1].op = "trim" /\ tx.queue[1].x = 1
  /\ Len(roots) = 2 /\ roots[1] # roots[2]

\* ------------------------------------------------------------- Announce
\* this step is the return of Announce with the error of a step that
\* followed the funding
FailedAfterFunding ==
  ann.pc \in {"pool", "txnset", "pool2"} /\ ann'.pc = "idle"
\* this step is the return of Announce with the funding's error
FailedFunding ==
  ann.pc \in {"fund", "fund2"} /\ ann'.pc = "idle"

\* C20: in both branches of Announce the transaction set is broadcast only
\* after the pool accepted it; when the pool (or building the v2 set)
\* fails after the funding, the inputs funded for the transaction are
\* released, nothing is broadcast and an error is returned; when the
\* funding fails nothing is released or broadcast.
C20_BroadcastAfterPool ==
  /\ [](/\ ann.bcast => ann.inPool
        /\ ann.sent <= ann.pooled
        /\ ann.released => (ann.funded /\ ~ann.inPool /\ ~ann.bcast /\ ann.res = "err")
        /\ (ann.res = "err" /\ ann.funded) => (ann.released /\ ~ann.bcast)
        /\ (ann.res = "err" /\ ~ann.funded) => (~ann.released /\ ~ann.bcast)
        /\ ann.locked = ann.pooled
                        + (IF ann.funded /\ ~ann.inPool /\ ~ann.released THEN 1 ELSE 0))
  /\ [][/\ FailedAfterFunding =>
             /\ ann'.res = "err" /\ ann'.released
             /\ ann'.locked = ann.locked - 1
             /\ ann'.sent = ann.sent /\ ann'.pooled = ann.pooled
        /\ FailedFunding =>
             /\ ann'.res = "err" /\ ~ann'.released
             /\ ann'.locked = ann.locked
             /\ ann'.sent = ann.sent /\ ann'.pooled = ann.pooled
        /\ ann'.sent # ann.sent =>
             ann.inPool /\ ann.pc \in {"bcast", "bcast2"}]_vars

\* a v2 Announce failed after its funding and released its inputs, after
\* an earlier Announce had broadcast its transaction
C20_Witness ==
  /\ ann.pc = "idle" /\ ann.v2 /\ ann.res = "err"
  /\ ann.funded /\ ann.released
  /\ ann.sent = 1 /\ ann.locked = 1

====
